---------------------------- MODULE Spec2Model ----------------------------
(***************************************************************************)
(* Medallion travel pipeline: bronze ingestion (01), silver cleaning (02), *)
(* gold aggregation (03) and the data-quality audit (04), modelled as a    *)
(* state machine over the catalog's tables.                                *)
(*                                                                         *)
(* Representation.                                                         *)
(*   - A nullable SQL value is a sequence: <<>> is NULL, <<v>> is v.       *)
(*   - Prices are integers in thousandths of a dollar, so that ROUND(x, 2) *)
(*     has something to round; coordinates are integers in 10^-7 degrees,  *)
(*     so that ROUND(x, 6) has something to round.                         *)
(*   - Rates (percentages rounded to 2 decimals) are integers in           *)
(*     hundredths of a percent.                                            *)
(*   - A table is [exists, rows]; bronze and silver rows are sequences     *)
(*     (duplicates are possible), gold rows are sets (one row per group).  *)
(*   - Wall-clock time is an integer number of hours.                      *)
(***************************************************************************)
EXTENDS Integers, Sequences, FiniteSets, TLC

VARIABLES
    travel_purchase,              \* source relation (01:75)
    user_features,                \* source relation (01:118)
    destination_location,         \* source relation (01:153)
    bronze_travel_purchases,
    bronze_user_features,
    bronze_destinations,
    silver_travel_purchases,
    silver_users,
    silver_destinations,
    gold_daily_revenue_metrics,
    gold_destination_performance,
    gold_user_engagement,
    gold_monthly_summary,
    dq_audit_log,
    dq_results,                   \* the auditor's result list (04:38)
    pc,                           \* the auditor's position in 04_data_quality
    loop_i,                       \* index of the auditor's current loop
    audit_written,                \* the running audit has executed 04:235
    now                           \* wall clock, hours

vars == <<travel_purchase, user_features, destination_location,
          bronze_travel_purchases, bronze_user_features, bronze_destinations,
          silver_travel_purchases, silver_users, silver_destinations,
          gold_daily_revenue_metrics, gold_destination_performance,
          gold_user_engagement, gold_monthly_summary,
          dq_audit_log, dq_results, pc, loop_i, audit_written, now>>

sourceVars == <<travel_purchase, user_features, destination_location>>
bronzeVars == <<bronze_travel_purchases, bronze_user_features, bronze_destinations>>
silverVars == <<silver_travel_purchases, silver_users, silver_destinations>>
goldVars   == <<gold_daily_revenue_metrics, gold_destination_performance,
                gold_user_engagement, gold_monthly_summary>>
dqVars     == <<dq_audit_log, dq_results, pc, loop_i, audit_written>>

-----------------------------------------------------------------------------
(* SQL values *)

NULL == <<>>
Some(v) == <<v>>
IsNull(x) == x = <<>>
NotNull(x) == x # <<>>
Val(x) == x[1]

\* COALESCE(x, d)
Coalesce(x, d) == IF IsNull(x) THEN Some(d) ELSE x

\* A boolean column used as a CASE WHEN condition: NULL is not true.
IsTrue(x) == NotNull(x) /\ Val(x) = TRUE

\* Units of the integer representation.
Milli == 1000                      \* price units per dollar
CoordUnit == 10000000              \* coordinate units per degree

\* ROUND(x, d) is HALF_UP: to the nearest multiple of `step`, ties away from 0.
RoundAbs(a, step) ==
    IF 2 * (a % step) >= step THEN ((a \div step) + 1) * step
    ELSE (a \div step) * step
RoundTo(v, step) == IF v >= 0 THEN RoundAbs(v, step) ELSE -RoundAbs(-v, step)

\* ROUND(n / d, 0) HALF_UP for n >= 0, d > 0.
RoundDiv(n, d) == (2 * n + d) \div (2 * d)

RECURSIVE SeqSum(_)
SeqSum(s) == IF s = <<>> THEN 0 ELSE Head(s) + SeqSum(Tail(s))

\* The values of a sequence.
Range(s) == {s[i] : i \in DOMAIN s}

\* A table that does not exist, and a table holding rows.
Missing == [exists |-> FALSE, rows |-> <<>>]
MissingGold == [exists |-> FALSE, rows |-> {}]
Table(r) == [exists |-> TRUE, rows |-> r]

\* No notebook is running: the auditor is not started or has ended.
NotRunning == {"idle", "passed", "failed", "crashed"}

\* The elements of a finite set, in some fixed order.
RECURSIVE SetToSeq(_)
SetToSeq(S) ==
    IF S = {} THEN <<>>
    ELSE LET x == CHOOSE y \in S : TRUE IN <<x>> \o SetToSeq(S \ {x})

\* The relations of at most n rows over S.  A relation is a bag of rows and no
\* query depends on their order: each bag is listed once, as one sequence.
RelationsUpTo(S, n) ==
    LET D == SetToSeq(S)
        Ordered(k) == {f \in [1..k -> DOMAIN D] : \A i \in 1..(k - 1) : f[i] <= f[i + 1]}
    IN  UNION {{[i \in 1..k |-> D[f[i]]] : f \in Ordered(k)} : k \in 0..n}

-----------------------------------------------------------------------------
(* 01_bronze_ingestion: verbatim copies with lineage columns *)

SourceSchema == "dbdemos_fs_travel"

\* concat_ws('|', ...) skips NULL arguments; the hash is modelled by the
\* sequence of the non-null key values it digests.
RowHash(r) ==
    LET keys == <<r.id, r.ts, r.user_id, r.destination_id>>
    IN  SelectSeq(keys, NotNull)

BronzePurchaseRow(r) ==
    [id |-> r.id, ts |-> r.ts, user_id |-> r.user_id,
     destination_id |-> r.destination_id, clicked |-> r.clicked,
     purchased |-> r.purchased, booking_date |-> r.booking_date,
     price |-> r.price, user_latitude |-> r.user_latitude,
     user_longitude |-> r.user_longitude,
     _ingested_at |-> Some(now),
     _source_table |-> <<SourceSchema, "travel_purchase">>,
     _row_hash |-> RowHash(r)]

BronzeUserRow(r) ==
    [user_id |-> r.user_id, ts |-> r.ts, mean_price_7d |-> r.mean_price_7d,
     last_6m_purchases |-> r.last_6m_purchases,
     user_longitude |-> r.user_longitude, user_latitude |-> r.user_latitude,
     _ingested_at |-> Some(now),
     _source_table |-> <<SourceSchema, "user_features">>]

BronzeDestinationRow(r) ==
    [destination_id |-> r.destination_id, destination_name |-> r.name,
     dest_latitude |-> r.latitude, dest_longitude |-> r.longitude,
     _ingested_at |-> Some(now),
     _source_table |-> <<SourceSchema, "destination_location">>]

\* The whole notebook: three CREATE OR REPLACE TABLE ... AS SELECT.
RunBronze ==
    /\ pc \in NotRunning
    /\ bronze_travel_purchases' =
         Table([i \in DOMAIN travel_purchase |-> BronzePurchaseRow(travel_purchase[i])])
    /\ bronze_user_features' =
         Table([i \in DOMAIN user_features |-> BronzeUserRow(user_features[i])])
    /\ bronze_destinations' =
         Table([i \in DOMAIN destination_location |->
                    BronzeDestinationRow(destination_location[i])])
    /\ UNCHANGED <<sourceVars, silverVars, goldVars, dqVars, now>>

-----------------------------------------------------------------------------
(* 02_silver_transformations: cleaning and validation *)

MaxPrice == 50000
MaxLatitude == 90
MaxLongitude == 180

\* A cleaning that rejects the limit itself.
CleanPriceBelowLimit(price) ==
    IF IsNull(price) \/ Val(price) < 0 THEN NULL
    ELSE IF Val(price) >= MaxPrice * Milli THEN NULL
    ELSE Some(RoundTo(Val(price), Milli \div 100))

\* CASE WHEN price IS NULL OR price < 0 THEN NULL
\*      WHEN price > 50000 THEN NULL ELSE ROUND(price, 2) END
CleanPrice(price) ==
    IF IsNull(price) \/ Val(price) < 0 THEN NULL
    ELSE IF Val(price) > MaxPrice * Milli THEN NULL
    ELSE Some(RoundTo(Val(price), Milli \div 100))

PriceInvalid(price) ==
    IF IsNull(price) \/ Val(price) < 0 \/ Val(price) > MaxPrice * Milli
    THEN TRUE ELSE FALSE

LocationInvalid(lat, lon) ==
    IF IsNull(lat) \/ IsNull(lon) THEN TRUE
    ELSE IF Val(lat) < -(MaxLatitude * CoordUnit) \/ Val(lat) > MaxLatitude * CoordUnit
         THEN TRUE
    ELSE IF Val(lon) < -(MaxLongitude * CoordUnit) \/ Val(lon) > MaxLongitude * CoordUnit
         THEN TRUE
    ELSE FALSE

\* EXTRACT(DAYOFWEEK FROM ts): 1 = Sunday ... 7 = Saturday.
MonthOffset == <<0, 3, 2, 5, 0, 3, 5, 1, 4, 6, 2, 4>>
DayOfWeek(t) ==
    LET y == IF t.month < 3 THEN t.year - 1 ELSE t.year
    IN  ((y + (y \div 4) - (y \div 100) + (y \div 400)
            + MonthOffset[t.month] + t.day) % 7) + 1

ExtractYear(ts)  == IF IsNull(ts) THEN NULL ELSE Some(Val(ts).year)
ExtractMonth(ts) == IF IsNull(ts) THEN NULL ELSE Some(Val(ts).month)
ExtractDow(ts)   == IF IsNull(ts) THEN NULL ELSE Some(DayOfWeek(Val(ts)))
\* An hour read from the clock of the run instead of the timestamp.
ExtractHourOfRun(ts) == IF IsNull(ts) THEN NULL ELSE Some(now % 24)
ExtractHour(ts)  == IF IsNull(ts) THEN NULL ELSE Some(Val(ts).hour)

\* CASE WHEN EXTRACT(DAYOFWEEK FROM ts) IN (1, 7) THEN 'weekend' ELSE 'weekday' END
DayType(ts) ==
    IF NotNull(ExtractDow(ts)) /\ Val(ExtractDow(ts)) \in {1, 7}
    THEN "weekend" ELSE "weekday"

CleanPurchaseRow(b) ==
    [transaction_id |-> b.id,
     transaction_timestamp |-> b.ts,
     user_id |-> b.user_id,
     destination_id |-> b.destination_id,
     clicked |-> Coalesce(b.clicked, FALSE),
     purchased |-> Coalesce(b.purchased, FALSE),
     booking_date |-> b.booking_date,
     price_usd |-> CleanPrice(b.price),
     user_latitude |-> b.user_latitude,
     user_longitude |-> b.user_longitude,
     _price_invalid |-> PriceInvalid(b.price),
     _location_invalid |-> LocationInvalid(b.user_latitude, b.user_longitude),
     transaction_year |-> ExtractYear(b.ts),
     transaction_month |-> ExtractMonth(b.ts),
     transaction_day_of_week |-> ExtractDow(b.ts),
     transaction_hour |-> ExtractHour(b.ts),
     day_type |-> DayType(b.ts),
     _ingested_at |-> b._ingested_at,
     _processed_at |-> Some(now)]

\* A filter that also drops the rows without a valid price.
PurchaseKeptIfPriced(b) ==
    /\ NotNull(b.id) /\ NotNull(b.user_id) /\ NotNull(b.destination_id)
    /\ NotNull(b.price) /\ Val(b.price) >= 0

\* WHERE id IS NOT NULL AND user_id IS NOT NULL AND destination_id IS NOT NULL
PurchaseKept(b) ==
    NotNull(b.id) /\ NotNull(b.user_id) /\ NotNull(b.destination_id)

SilverTravelPurchases(bronze) ==
    LET kept == SelectSeq(bronze, PurchaseKept)
    IN  [i \in DOMAIN kept |-> CleanPurchaseRow(kept[i])]

\* CASE WHEN x IS NULL OR x < -limit OR x > limit THEN NULL ELSE ROUND(x, 6) END
CleanCoordinate(x, limit) ==
    IF IsNull(x) \/ Val(x) < -(limit * CoordUnit) \/ Val(x) > limit * CoordUnit
    THEN NULL
    ELSE Some(RoundTo(Val(x), CoordUnit \div 1000000))

HighFrequencyMin == 10
MediumFrequencyMin == 3
PremiumMin == 500
StandardMin == 200

\* CASE WHEN last_6m_purchases >= 10 THEN 'high_frequency'
\*      WHEN last_6m_purchases >= 3 THEN 'medium_frequency' ELSE 'low_frequency' END
PurchaseFrequencySegment(purchases) ==
    IF NotNull(purchases) /\ Val(purchases) >= HighFrequencyMin THEN "high_frequency"
    ELSE IF NotNull(purchases) /\ Val(purchases) >= MediumFrequencyMin THEN "medium_frequency"
    ELSE "low_frequency"

\* CASE WHEN mean_price_7d >= 500 THEN 'premium'
\*      WHEN mean_price_7d >= 200 THEN 'standard' ELSE 'budget' END
PriceSegment(price) ==
    IF NotNull(price) /\ Val(price) >= PremiumMin * Milli THEN "premium"
    ELSE IF NotNull(price) /\ Val(price) >= StandardMin * Milli THEN "standard"
    ELSE "budget"

CleanUserRow(b) ==
    [user_id |-> b.user_id,
     last_updated_at |-> b.ts,
     avg_price_7day |-> Some(RoundTo(Val(Coalesce(b.mean_price_7d, 0)), Milli \div 100)),
     purchases_6month |-> Coalesce(b.last_6m_purchases, 0),
     user_latitude |-> CleanCoordinate(b.user_latitude, MaxLatitude),
     user_longitude |-> CleanCoordinate(b.user_longitude, MaxLongitude),
     purchase_frequency_segment |-> PurchaseFrequencySegment(b.last_6m_purchases),
     price_segment |-> PriceSegment(b.mean_price_7d),
     _ingested_at |-> b._ingested_at,
     _processed_at |-> Some(now)]

\* WHERE user_id IS NOT NULL
UserKept(b) == NotNull(b.user_id)

SilverUsers(bronze) ==
    LET kept == SelectSeq(bronze, UserKept)
    IN  [i \in DOMAIN kept |-> CleanUserRow(kept[i])]

\* Characters of destination names: lower case, upper case, blank.
LowerOf(c) == CASE c = "A" -> "a" [] c = "B" -> "b" [] OTHER -> c
UpperOf(c) == CASE c = "a" -> "A" [] c = "b" -> "B" [] OTHER -> c

\* INITCAP: the first letter of each blank-delimited word in upper case,
\* every other letter in lower case.
InitCap(s) ==
    [i \in DOMAIN s |->
        IF i = 1 \/ s[i - 1] = " " THEN UpperOf(s[i]) ELSE LowerOf(s[i])]

\* TRIM: leading and trailing blanks removed.
RECURSIVE TrimLeft(_)
TrimLeft(s) == IF s # <<>> /\ Head(s) = " " THEN TrimLeft(Tail(s)) ELSE s
RECURSIVE TrimRight(_)
TrimRight(s) ==
    IF s # <<>> /\ s[Len(s)] = " " THEN TrimRight(SubSeq(s, 1, Len(s) - 1)) ELSE s
Trim(s) == TrimRight(TrimLeft(s))

\* TRIM(INITCAP(destination_name)); a name is a sequence of characters.
CleanName(name) == IF IsNull(name) THEN NULL ELSE Some(Trim(InitCap(Val(name))))

\* A label taken from the cleaned latitude: out of range counts as missing.
HemisphereOfCleaned(lat) ==
    IF NotNull(lat) /\ Val(lat) >= 0 /\ Val(lat) <= MaxLatitude * CoordUnit
    THEN "Northern" ELSE "Southern"

\* CASE WHEN dest_latitude >= 0 THEN 'Northern' ELSE 'Southern' END
Hemisphere(lat) == IF NotNull(lat) /\ Val(lat) >= 0 THEN "Northern" ELSE "Southern"

CleanDestinationRow(b) ==
    [destination_id |-> b.destination_id,
     destination_name |-> CleanName(b.destination_name),
     latitude |-> CleanCoordinate(b.dest_latitude, MaxLatitude),
     longitude |-> CleanCoordinate(b.dest_longitude, MaxLongitude),
     hemisphere |-> Hemisphere(b.dest_latitude),
     _ingested_at |-> b._ingested_at,
     _processed_at |-> Some(now)]

\* WHERE destination_id IS NOT NULL
DestinationKept(b) == NotNull(b.destination_id)

SilverDestinations(bronze) ==
    LET kept == SelectSeq(bronze, DestinationKept)
    IN  [i \in DOMAIN kept |-> CleanDestinationRow(kept[i])]

\* The whole notebook.  Its first statement reads bronze_travel_purchases; when
\* the bronze tables do not exist it raises and nothing is created.
RunSilver ==
    /\ pc \in NotRunning
    /\ IF bronze_travel_purchases.exists /\ bronze_user_features.exists
          /\ bronze_destinations.exists
       THEN /\ silver_travel_purchases' =
                 Table(SilverTravelPurchases(bronze_travel_purchases.rows))
            /\ silver_users' = Table(SilverUsers(bronze_user_features.rows))
            /\ silver_destinations' = Table(SilverDestinations(bronze_destinations.rows))
       ELSE UNCHANGED silverVars
    /\ UNCHANGED <<sourceVars, bronzeVars, goldVars, dqVars, now>>

-----------------------------------------------------------------------------
(* 03_gold_aggregations: SQL aggregates over a group's rows (a sequence) *)

Clicked(t) == IsTrue(t.clicked)
Purchased(t) == IsTrue(t.purchased)

\* COUNT(*)
CountStar(rs) == Len(rs)

\* A purchase count that counts the clicks as well.
SumPurchasedOrClicked(rs) ==
    Len(SelectSeq(rs, LAMBDA t : IsTrue(t.purchased)))
      + Len(SelectSeq(rs, LAMBDA t : IsTrue(t.clicked)))

\* SUM(CASE WHEN clicked THEN 1 ELSE 0 END), SUM(CASE WHEN purchased THEN 1 ELSE 0 END)
SumClicked(rs) == Len(SelectSeq(rs, Clicked))
SumPurchased(rs) == Len(SelectSeq(rs, Purchased))

\* SUM ignores NULL inputs and is NULL when every input is NULL.
SumOf(values) ==
    LET present == SelectSeq(values, NotNull)
    IN  IF present = <<>> THEN NULL
        ELSE Some(SeqSum([i \in DOMAIN present |-> Val(present[i])]))

\* SUM(CASE WHEN purchased THEN price_usd ELSE 0 END)
SumRevenue(rs) ==
    SumOf([i \in DOMAIN rs |-> IF Purchased(rs[i]) THEN rs[i].price_usd ELSE Some(0)])

\* ROUND(x, 2) of a nullable amount
Round2(x) == IF IsNull(x) THEN NULL ELSE Some(RoundTo(Val(x), Milli \div 100))

\* The non-null values of CASE WHEN purchased THEN price_usd END
PurchasedPrices(rs) ==
    SelectSeq([i \in DOMAIN rs |-> IF Purchased(rs[i]) THEN rs[i].price_usd ELSE NULL],
              NotNull)

\* ROUND(AVG(CASE WHEN purchased THEN price_usd END), 2)
AvgPurchased(rs) ==
    LET present == PurchasedPrices(rs)
        total == SeqSum([i \in DOMAIN present |-> Val(present[i])])
        cent == Milli \div 100
    IN  IF present = <<>> THEN NULL
        ELSE Some(RoundDiv(total, cent * Len(present)) * cent)

\* MIN / MAX(CASE WHEN purchased THEN price_usd END)
MinPurchased(rs) ==
    LET vs == {Val(v) : v \in Range(PurchasedPrices(rs))}
    IN  IF vs = {} THEN NULL ELSE Some(CHOOSE m \in vs : \A v \in vs : m <= v)
MaxPurchased(rs) ==
    LET vs == {Val(v) : v \in Range(PurchasedPrices(rs))}
    IN  IF vs = {} THEN NULL ELSE Some(CHOOSE m \in vs : \A v \in vs : m >= v)

\* COUNT(DISTINCT col), COUNT(col): NULLs are not counted.
DistinctUsers(rs) == Cardinality({r.user_id : r \in Range(rs)} \ {NULL})
DistinctDestinations(rs) == Cardinality({r.destination_id : r \in Range(rs)} \ {NULL})
DistinctBuyers(rs) ==
    Cardinality({r.user_id : r \in Range(SelectSeq(rs, Purchased))} \ {NULL})
DistinctBooked(rs) ==
    Cardinality({r.destination_id : r \in Range(SelectSeq(rs, Purchased))} \ {NULL})
HasTransactionId(t) == NotNull(t.transaction_id)
CountTransactionId(rs) == Len(SelectSeq(rs, HasTransactionId))

\* A rate cut off after 2 decimals instead of rounded.
RatePctTruncated(num, den) ==
    IF den = 0 THEN NULL ELSE Some((num * 100 * 100) \div den)

\* ROUND(num * 100.0 / NULLIF(den, 0), 2), in hundredths of a percent.
RatePct(num, den) ==
    IF den = 0 THEN NULL ELSE Some(RoundDiv(num * 100 * 100, den))

\* DATE(ts)
DateOf(ts) ==
    IF IsNull(ts) THEN NULL
    ELSE Some([year |-> Val(ts).year, month |-> Val(ts).month, day |-> Val(ts).day])

\* Gold table 1.  GROUP BY DATE(transaction_timestamp), transaction_year,
\* transaction_month, day_type
DailyKey(t) ==
    [report_date |-> DateOf(t.transaction_timestamp),
     transaction_year |-> t.transaction_year,
     transaction_month |-> t.transaction_month,
     day_type |-> t.day_type]

DailyRow(k, rs) ==
    [report_date |-> k.report_date,
     transaction_year |-> k.transaction_year,
     transaction_month |-> k.transaction_month,
     day_type |-> k.day_type,
     total_transactions |-> CountStar(rs),
     total_clicks |-> SumClicked(rs),
     total_purchases |-> SumPurchased(rs),
     conversion_rate_pct |-> RatePct(SumPurchased(rs), CountStar(rs)),
     click_to_purchase_rate_pct |-> RatePct(SumPurchased(rs), SumClicked(rs)),
     total_revenue_usd |-> Round2(SumRevenue(rs)),
     avg_transaction_value_usd |-> AvgPurchased(rs),
     min_transaction_usd |-> MinPurchased(rs),
     max_transaction_usd |-> MaxPurchased(rs),
     unique_users |-> DistinctUsers(rs),
     unique_destinations |-> DistinctDestinations(rs),
     _generated_at |-> Some(now)]

GoldDailyRevenueMetrics(t) ==
    {DailyRow(k, SelectSeq(t, LAMBDA r : DailyKey(r) = k)) :
        k \in {DailyKey(r) : r \in Range(t)}}

\* The purchase columns of a dimension row that no purchase joins to.
NullPurchase ==
    [transaction_id |-> NULL, transaction_timestamp |-> NULL, user_id |-> NULL,
     destination_id |-> NULL, clicked |-> NULL, purchased |-> NULL,
     booking_date |-> NULL, price_usd |-> NULL, user_latitude |-> NULL,
     user_longitude |-> NULL, _price_invalid |-> NULL, _location_invalid |-> NULL,
     transaction_year |-> NULL, transaction_month |-> NULL,
     transaction_day_of_week |-> NULL, transaction_hour |-> NULL,
     day_type |-> NULL, _ingested_at |-> NULL, _processed_at |-> NULL]

\* d LEFT JOIN t ON d.id = t.id, for one row of d: its matches, or one
\* null-extended row when there is none.
LeftJoinRows(matches) == IF matches = <<>> THEN <<NullPurchase>> ELSE matches

RECURSIVE Flatten(_)
Flatten(ss) == IF ss = <<>> THEN <<>> ELSE Head(ss) \o Flatten(Tail(ss))

\* Gold table 2.  GROUP BY d.destination_id, d.destination_name, d.latitude,
\* d.longitude, d.hemisphere
DestinationKey(d) ==
    [destination_id |-> d.destination_id, destination_name |-> d.destination_name,
     latitude |-> d.latitude, longitude |-> d.longitude, hemisphere |-> d.hemisphere]

DestinationJoin(d, t) ==
    LeftJoinRows(SelectSeq(t, LAMBDA r :
        NotNull(r.destination_id) /\ r.destination_id = d.destination_id))

DestinationGroup(k, dims, t) ==
    LET ds == SelectSeq(dims, LAMBDA d : DestinationKey(d) = k)
    IN  Flatten([j \in DOMAIN ds |-> DestinationJoin(ds[j], t)])

\* RANK() OVER (ORDER BY x DESC): one more than the number of rows ordered
\* strictly before; NULL sorts last in descending order.
DescBefore(a, b) == NotNull(a) /\ (IsNull(b) \/ Val(a) > Val(b))
RankDesc(x, all) == 1 + Cardinality({g \in DOMAIN all : DescBefore(all[g], x)})

DestinationRow(k, rs, bookings, revenues) ==
    [destination_id |-> k.destination_id,
     destination_name |-> k.destination_name,
     latitude |-> k.latitude,
     longitude |-> k.longitude,
     hemisphere |-> k.hemisphere,
     total_views |-> CountStar(rs),
     total_clicks |-> SumClicked(rs),
     total_bookings |-> SumPurchased(rs),
     click_rate_pct |-> RatePct(SumClicked(rs), CountStar(rs)),
     booking_rate_pct |-> RatePct(SumPurchased(rs), SumClicked(rs)),
     total_revenue_usd |-> Round2(SumRevenue(rs)),
     avg_booking_value_usd |-> AvgPurchased(rs),
     unique_visitors |-> DistinctUsers(rs),
     unique_buyers |-> DistinctBuyers(rs),
     booking_rank |-> RankDesc(Some(SumPurchased(rs)), bookings),
     revenue_rank |-> RankDesc(SumRevenue(rs), revenues),
     _generated_at |-> Some(now)]

GoldDestinationPerformance(dims, t) ==
    LET keys == {DestinationKey(d) : d \in Range(dims)}
        bookings == [k \in keys |-> Some(SumPurchased(DestinationGroup(k, dims, t)))]
        revenues == [k \in keys |-> SumRevenue(DestinationGroup(k, dims, t))]
    IN  {DestinationRow(k, DestinationGroup(k, dims, t), bookings, revenues) : k \in keys}

PlatinumMin == 5000
GoldMin == 2000
SilverMin == 500

\* A tiering whose thresholds are exclusive.
CustomerTierExclusive(spend) ==
    IF NotNull(spend) /\ Val(spend) > PlatinumMin * Milli THEN "platinum"
    ELSE IF NotNull(spend) /\ Val(spend) > GoldMin * Milli THEN "gold"
    ELSE IF NotNull(spend) /\ Val(spend) > SilverMin * Milli THEN "silver"
    ELSE "bronze"

\* CASE WHEN SUM(...) >= 5000 THEN 'platinum' WHEN SUM(...) >= 2000 THEN 'gold'
\*      WHEN SUM(...) >= 500 THEN 'silver' ELSE 'bronze' END
CustomerTier(spend) ==
    IF NotNull(spend) /\ Val(spend) >= PlatinumMin * Milli THEN "platinum"
    ELSE IF NotNull(spend) /\ Val(spend) >= GoldMin * Milli THEN "gold"
    ELSE IF NotNull(spend) /\ Val(spend) >= SilverMin * Milli THEN "silver"
    ELSE "bronze"

\* Gold table 3.  GROUP BY u.user_id, u.purchase_frequency_segment,
\* u.price_segment, u.avg_price_7day, u.purchases_6month, u.user_latitude,
\* u.user_longitude
UserKey(u) ==
    [user_id |-> u.user_id,
     purchase_frequency_segment |-> u.purchase_frequency_segment,
     price_segment |-> u.price_segment,
     avg_price_7day |-> u.avg_price_7day,
     purchases_6month |-> u.purchases_6month,
     user_latitude |-> u.user_latitude,
     user_longitude |-> u.user_longitude]

UserJoin(u, t) ==
    LeftJoinRows(SelectSeq(t, LAMBDA r :
        NotNull(r.user_id) /\ r.user_id = u.user_id))

UserGroup(k, dims, t) ==
    LET us == SelectSeq(dims, LAMBDA u : UserKey(u) = k)
    IN  Flatten([j \in DOMAIN us |-> UserJoin(us[j], t)])

UserRow(k, rs) ==
    [user_id |-> k.user_id,
     purchase_frequency_segment |-> k.purchase_frequency_segment,
     price_segment |-> k.price_segment,
     historical_avg_price |-> k.avg_price_7day,
     historical_purchases |-> k.purchases_6month,
     user_latitude |-> k.user_latitude,
     user_longitude |-> k.user_longitude,
     total_interactions |-> CountTransactionId(rs),
     total_clicks |-> SumClicked(rs),
     total_purchases |-> SumPurchased(rs),
     conversion_rate_pct |-> RatePct(SumPurchased(rs), CountStar(rs)),
     total_spend_usd |-> Round2(SumRevenue(rs)),
     avg_purchase_usd |-> AvgPurchased(rs),
     destinations_viewed |-> DistinctDestinations(rs),
     destinations_booked |-> DistinctBooked(rs),
     customer_tier |-> CustomerTier(SumRevenue(rs)),
     _generated_at |-> Some(now)]

GoldUserEngagement(dims, t) ==
    {UserRow(k, UserGroup(k, dims, t)) : k \in {UserKey(u) : u \in Range(dims)}}

\* Gold table 4.  GROUP BY transaction_year, transaction_month
MonthlyKey(t) ==
    [transaction_year |-> t.transaction_year, transaction_month |-> t.transaction_month]

\* ORDER BY transaction_year, transaction_month (ascending, NULL first)
AscBefore(a, b) == (IsNull(a) /\ NotNull(b)) \/ (NotNull(a) /\ NotNull(b) /\ Val(a) < Val(b))
MonthBefore(j, k) ==
    \/ AscBefore(j.transaction_year, k.transaction_year)
    \/ /\ j.transaction_year = k.transaction_year
       /\ AscBefore(j.transaction_month, k.transaction_month)

\* A lag that takes the revenue of the earliest period instead of the period
\* just before.
LagRevenueEarliest(k, revenues) ==
    LET before == {j \in DOMAIN revenues : MonthBefore(j, k)}
    IN  IF before = {} THEN NULL
        ELSE revenues[CHOOSE j \in before :
                        \A i \in before : i = j \/ MonthBefore(j, i)]

\* LAG(x) OVER (ORDER BY ...): x of the row just before, NULL for the first row.
LagRevenue(k, revenues) ==
    LET before == {j \in DOMAIN revenues : MonthBefore(j, k)}
    IN  IF before = {} THEN NULL
        ELSE revenues[CHOOSE j \in before :
                        \A i \in before : i = j \/ MonthBefore(i, j)]

MonthlyRow(k, rs, revenues) ==
    [transaction_year |-> k.transaction_year,
     transaction_month |-> k.transaction_month,
     total_transactions |-> CountStar(rs),
     total_bookings |-> SumPurchased(rs),
     monthly_revenue_usd |-> Round2(SumRevenue(rs)),
     avg_booking_value_usd |-> AvgPurchased(rs),
     active_users |-> DistinctUsers(rs),
     destinations_in_demand |-> DistinctDestinations(rs),
     monthly_conversion_pct |-> RatePct(SumPurchased(rs), CountStar(rs)),
     prev_month_revenue |-> LagRevenue(k, revenues),
     _generated_at |-> Some(now)]

MonthlyGroup(k, t) == SelectSeq(t, LAMBDA r : MonthlyKey(r) = k)

GoldMonthlySummary(t) ==
    LET keys == {MonthlyKey(r) : r \in Range(t)}
        revenues == [k \in keys |-> Round2(SumRevenue(MonthlyGroup(k, t)))]
    IN  {MonthlyRow(k, MonthlyGroup(k, t), revenues) : k \in keys}

\* The whole notebook.  Its first statement reads silver_travel_purchases; when
\* the silver tables do not exist it raises and nothing is created.
RunGold ==
    /\ pc \in NotRunning
    /\ IF silver_travel_purchases.exists /\ silver_users.exists
          /\ silver_destinations.exists
       THEN /\ gold_daily_revenue_metrics' =
                 Table(GoldDailyRevenueMetrics(silver_travel_purchases.rows))
            /\ gold_destination_performance' =
                 Table(GoldDestinationPerformance(silver_destinations.rows,
                                                  silver_travel_purchases.rows))
            /\ gold_user_engagement' =
                 Table(GoldUserEngagement(silver_users.rows, silver_travel_purchases.rows))
            /\ gold_monthly_summary' =
                 Table(GoldMonthlySummary(silver_travel_purchases.rows))
       ELSE UNCHANGED goldVars
    /\ UNCHANGED <<sourceVars, bronzeVars, silverVars, dqVars, now>>

-----------------------------------------------------------------------------
(* 04_data_quality: the audit checklist *)

\* tables (04:43-54): name, layer
tables ==
    << <<"bronze_travel_purchases", "bronze">>,
       <<"bronze_user_features", "bronze">>,
       <<"bronze_destinations", "bronze">>,
       <<"silver_travel_purchases", "silver">>,
       <<"silver_users", "silver">>,
       <<"silver_destinations", "silver">>,
       <<"gold_daily_revenue_metrics", "gold">>,
       <<"gold_destination_performance", "gold">>,
       <<"gold_user_engagement", "gold">>,
       <<"gold_monthly_summary", "gold">> >>

\* freshness_tables (04:136-140): name, layer (table_name.split("_")[0])
freshness_tables ==
    << <<"bronze_travel_purchases", "bronze">>,
       <<"silver_travel_purchases", "silver">>,
       <<"gold_daily_revenue_metrics", "gold">> >>

\* spark.table(name): whether it can be read, and its row count
TableExists(name) ==
    CASE name = "bronze_travel_purchases" -> bronze_travel_purchases.exists
      [] name = "bronze_user_features" -> bronze_user_features.exists
      [] name = "bronze_destinations" -> bronze_destinations.exists
      [] name = "silver_travel_purchases" -> silver_travel_purchases.exists
      [] name = "silver_users" -> silver_users.exists
      [] name = "silver_destinations" -> silver_destinations.exists
      [] name = "gold_daily_revenue_metrics" -> gold_daily_revenue_metrics.exists
      [] name = "gold_destination_performance" -> gold_destination_performance.exists
      [] name = "gold_user_engagement" -> gold_user_engagement.exists
      [] name = "gold_monthly_summary" -> gold_monthly_summary.exists

TableCount(name) ==
    CASE name = "bronze_travel_purchases" -> Len(bronze_travel_purchases.rows)
      [] name = "bronze_user_features" -> Len(bronze_user_features.rows)
      [] name = "bronze_destinations" -> Len(bronze_destinations.rows)
      [] name = "silver_travel_purchases" -> Len(silver_travel_purchases.rows)
      [] name = "silver_users" -> Len(silver_users.rows)
      [] name = "silver_destinations" -> Len(silver_destinations.rows)
      [] name = "gold_daily_revenue_metrics" -> Cardinality(gold_daily_revenue_metrics.rows)
      [] name = "gold_destination_performance" -> Cardinality(gold_destination_performance.rows)
      [] name = "gold_user_engagement" -> Cardinality(gold_user_engagement.rows)
      [] name = "gold_monthly_summary" -> Cardinality(gold_monthly_summary.rows)

\* One entry of dq_results.  `actual` is NULL where the code stores str(e).
Result(check, table, layer, actual, status) ==
    [check |-> check, table |-> table, layer |-> layer,
     actual |-> actual, status |-> status]

StartAudit ==
    /\ pc \in NotRunning
    /\ dq_results' = <<>>
    /\ pc' = "record_count"
    /\ loop_i' = 1
    /\ audit_written' = FALSE
    /\ UNCHANGED <<sourceVars, bronzeVars, silverVars, goldVars, dq_audit_log, now>>

\* status = "PASS" if count > 0 else "FAIL"
CountStatus(count) == IF count > 0 THEN "PASS" ELSE "FAIL"

\* One iteration of `for table_name, layer in tables` (04:56-78).
RecordCountResult(name, layer) ==
    IF TableExists(name)
    THEN Result("record_count", name, layer, Some(TableCount(name)),
                CountStatus(TableCount(name)))
    ELSE Result("record_count", name, layer, NULL, "FAIL")

RecordCountCheck ==
    /\ pc = "record_count"
    /\ dq_results' = Append(dq_results,
                            RecordCountResult(tables[loop_i][1], tables[loop_i][2]))
    /\ IF loop_i < Len(tables)
       THEN loop_i' = loop_i + 1 /\ pc' = pc
       ELSE loop_i' = 1 /\ pc' = "orphan_users"
    /\ UNCHANGED <<sourceVars, bronzeVars, silverVars, goldVars, dq_audit_log,
                   audit_written, now>>

\* SELECT COUNT(DISTINCT t.user_id) FROM silver_travel_purchases t
\* LEFT JOIN silver_users u ON t.user_id = u.user_id WHERE u.user_id IS NULL
OrphanUsers(t, u) ==
    Cardinality({r.user_id : r \in Range(t)}
                \ ({NULL} \cup {d.user_id : d \in Range(u)}))

OrphanDests(t, d) ==
    Cardinality({r.destination_id : r \in Range(t)}
                \ ({NULL} \cup {x.destination_id : x \in Range(d)}))

\* A severity that fails the run on orphans.
OrphanStatusFail(orphans) == IF orphans = 0 THEN "PASS" ELSE "FAIL"

\* status = "PASS" if orphans == 0 else "WARN"
OrphanStatus(orphans) == IF orphans = 0 THEN "PASS" ELSE "WARN"

\* 04:90-106.  The query is outside any try: a missing table ends the run.
OrphanUsersCheck ==
    /\ pc = "orphan_users"
    /\ IF silver_travel_purchases.exists /\ silver_users.exists
       THEN LET n == OrphanUsers(silver_travel_purchases.rows, silver_users.rows)
            IN  /\ dq_results' = Append(dq_results,
                     Result("referential_integrity",
                            "silver_travel_purchases -> silver_users", "silver",
                            Some(n), OrphanStatus(n)))
                /\ pc' = "orphan_dests"
       ELSE /\ pc' = "crashed"
            /\ UNCHANGED dq_results
    /\ UNCHANGED <<sourceVars, bronzeVars, silverVars, goldVars, dq_audit_log,
                   loop_i, audit_written, now>>

\* 04:109-125
OrphanDestsCheck ==
    /\ pc = "orphan_dests"
    /\ IF silver_travel_purchases.exists /\ silver_destinations.exists
       THEN LET n == OrphanDests(silver_travel_purchases.rows, silver_destinations.rows)
            IN  /\ dq_results' = Append(dq_results,
                     Result("referential_integrity",
                            "silver_travel_purchases -> silver_destinations", "silver",
                            Some(n), OrphanStatus(n)))
                /\ pc' = "freshness"
       ELSE /\ pc' = "crashed"
            /\ UNCHANGED dq_results
    /\ UNCHANGED <<sourceVars, bronzeVars, silverVars, goldVars, dq_audit_log,
                   loop_i, audit_written, now>>

\* SELECT MAX(ts_col) FROM table: NULL for a table without rows
MaxOf(values) ==
    LET vs == {Val(v) : v \in values \ {NULL}}
    IN  IF vs = {} THEN NULL ELSE Some(CHOOSE m \in vs : \A v \in vs : m >= v)

MaxTs(name) ==
    CASE name = "bronze_travel_purchases" ->
           MaxOf({r._ingested_at : r \in Range(bronze_travel_purchases.rows)})
      [] name = "silver_travel_purchases" ->
           MaxOf({r._processed_at : r \in Range(silver_travel_purchases.rows)})
      [] name = "gold_daily_revenue_metrics" ->
           MaxOf({r._generated_at : r \in gold_daily_revenue_metrics.rows})

FreshnessHours == 24
Infinity == 1000000              \* float('inf')

\* hours_old = (datetime.now() - max_ts).total_seconds() / 3600 if max_ts
\*             else float('inf')
HoursOld(max_ts) == IF NotNull(max_ts) THEN now - Val(max_ts) ELSE Infinity

\* A severity that still passes at exactly the threshold.
FreshnessStatusInclusive(hours_old) ==
    IF hours_old <= FreshnessHours THEN "PASS" ELSE "WARN"

\* status = "PASS" if hours_old < 24 else "WARN"
FreshnessStatus(hours_old) == IF hours_old < FreshnessHours THEN "PASS" ELSE "WARN"

\* One iteration of `for table_name, ts_col in freshness_tables` (04:142-162).
\* The except branch only prints: an unreadable table leaves no result.
FreshnessResults(name, layer) ==
    IF TableExists(name)
    THEN <<Result("data_freshness", name, layer, Some(HoursOld(MaxTs(name))),
                  FreshnessStatus(HoursOld(MaxTs(name))))>>
    ELSE <<>>

FreshnessCheck ==
    /\ pc = "freshness"
    /\ dq_results' = dq_results \o
         FreshnessResults(freshness_tables[loop_i][1], freshness_tables[loop_i][2])
    /\ IF loop_i < Len(freshness_tables)
       THEN loop_i' = loop_i + 1 /\ pc' = pc
       ELSE loop_i' = 1 /\ pc' = "neg_prices"
    /\ UNCHANGED <<sourceVars, bronzeVars, silverVars, goldVars, dq_audit_log,
                   audit_written, now>>

\* SELECT COUNT(*) FROM silver_travel_purchases WHERE price_usd < 0
NegPrices(t) ==
    Len(SelectSeq(t, LAMBDA r : NotNull(r.price_usd) /\ Val(r.price_usd) < 0))

\* SELECT COUNT(*) FROM gold_daily_revenue_metrics
\* WHERE conversion_rate_pct < 0 OR conversion_rate_pct > 100
InvalidConv(g) ==
    Cardinality({r \in g : /\ NotNull(r.conversion_rate_pct)
                           /\ \/ Val(r.conversion_rate_pct) < 0
                              \/ Val(r.conversion_rate_pct) > 100 * 100})

\* status = "PASS" if n == 0 else "FAIL"
RuleStatus(n) == IF n = 0 THEN "PASS" ELSE "FAIL"

\* 04:174-189.  Outside any try: a missing table ends the run.
NegPricesCheck ==
    /\ pc = "neg_prices"
    /\ IF silver_travel_purchases.exists
       THEN LET n == NegPrices(silver_travel_purchases.rows)
            IN  /\ dq_results' = Append(dq_results,
                     Result("business_rule", "silver_travel_purchases", "silver",
                            Some(n), RuleStatus(n)))
                /\ pc' = "invalid_conv"
       ELSE /\ pc' = "crashed"
            /\ UNCHANGED dq_results
    /\ UNCHANGED <<sourceVars, bronzeVars, silverVars, goldVars, dq_audit_log,
                   loop_i, audit_written, now>>

\* 04:192-207
InvalidConvCheck ==
    /\ pc = "invalid_conv"
    /\ IF gold_daily_revenue_metrics.exists
       THEN LET n == InvalidConv(gold_daily_revenue_metrics.rows)
            IN  /\ dq_results' = Append(dq_results,
                     Result("business_rule", "gold_daily_revenue_metrics", "gold",
                            Some(n), RuleStatus(n)))
                /\ pc' = "summary"
       ELSE /\ pc' = "crashed"
            /\ UNCHANGED dq_results
    /\ UNCHANGED <<sourceVars, bronzeVars, silverVars, goldVars, dq_audit_log,
                   loop_i, audit_written, now>>

\* fail_count = df_results.filter(F.col("status") == "FAIL").count()
FailCount(results) == Len(SelectSeq(results, LAMBDA r : r.status = "FAIL"))

\* 04:220-236: df_results.write.mode("overwrite").saveAsTable(dq_audit_log)
WriteAuditLog ==
    /\ pc = "summary"
    /\ dq_audit_log' = Table(dq_results)
    /\ audit_written' = TRUE
    /\ pc' = "verdict"
    /\ UNCHANGED <<sourceVars, bronzeVars, silverVars, goldVars, dq_results,
                   loop_i, now>>

\* A verdict that also raises on warnings.
ShouldRaiseOnWarn(results) ==
    Len(SelectSeq(results, LAMBDA r : r.status # "PASS")) > 0

\* 04:241-244: if fail_count > 0: raise Exception(...)
ShouldRaise(results) == FailCount(results) > 0

Verdict ==
    /\ pc = "verdict"
    /\ pc' = IF ShouldRaise(dq_results) THEN "failed" ELSE "passed"
    /\ UNCHANGED <<sourceVars, bronzeVars, silverVars, goldVars, dq_audit_log,
                   dq_results, loop_i, audit_written, now>>

AuditStep ==
    \/ StartAudit
    \/ RecordCountCheck
    \/ OrphanUsersCheck
    \/ OrphanDestsCheck
    \/ FreshnessCheck
    \/ NegPricesCheck
    \/ InvalidConvCheck
    \/ WriteAuditLog
    \/ Verdict

-----------------------------------------------------------------------------
(* The clock *)

TickSteps == {12}
MaxNow == 36

\* Time passes between notebook runs.
Tick ==
    /\ pc \in NotRunning
    /\ \E h \in TickSteps : now + h <= MaxNow /\ now' = now + h
    /\ UNCHANGED <<sourceVars, bronzeVars, silverVars, goldVars, dqVars>>

-----------------------------------------------------------------------------
(* Source relations *)

\* Two timestamps: Saturday 2024-01-06 10:00 and Monday 2024-02-05 09:00.
T1 == [year |-> 2024, month |-> 1, day |-> 6, hour |-> 10]
T2 == [year |-> 2024, month |-> 2, day |-> 5, hour |-> 9]

Purchase(id, ts, user, dest, clicked, purchased, price, lat, lon) ==
    [id |-> id, ts |-> ts, user_id |-> user, destination_id |-> dest,
     clicked |-> clicked, purchased |-> purchased, booking_date |-> NULL,
     price |-> price, user_latitude |-> lat, user_longitude |-> lon]

UserFeature(user, mean, purchases, lat, lon) ==
    [user_id |-> user, ts |-> Some(T1), mean_price_7d |-> mean,
     last_6m_purchases |-> purchases, user_latitude |-> lat, user_longitude |-> lon]

Destination(dest, name, lat, lon) ==
    [destination_id |-> dest, name |-> name, latitude |-> lat, longitude |-> lon]

\* Nothing has run: only the source relations exist.
InitTables ==
    /\ bronze_travel_purchases = Missing
    /\ bronze_user_features = Missing
    /\ bronze_destinations = Missing
    /\ silver_travel_purchases = Missing
    /\ silver_users = Missing
    /\ silver_destinations = Missing
    /\ gold_daily_revenue_metrics = MissingGold
    /\ gold_destination_performance = MissingGold
    /\ gold_user_engagement = MissingGold
    /\ gold_monthly_summary = MissingGold
    /\ dq_audit_log = Missing
    /\ dq_results = <<>>
    /\ pc = "idle"
    /\ loop_i = 1
    /\ audit_written = FALSE
    /\ now = 0

\* Inputs of the audit runs: empty and one-row relations, with and without
\* an orphaned reference.
AuditPurchases ==
    {<<>>,
     <<Purchase(Some(1), Some(T1), Some(1), Some(1), Some(TRUE), Some(TRUE),
                Some(100 * Milli), Some(0), Some(0))>>,
     <<Purchase(Some(2), Some(T1), Some(2), Some(2), Some(TRUE), Some(FALSE),
                Some(-1), Some(0), Some(0))>>}
AuditUsers ==
    {<<>>, <<UserFeature(Some(1), Some(100 * Milli), Some(1), Some(0), Some(0))>>}
AuditDestinations ==
    {<<>>, <<Destination(Some(1), Some(<<"a">>), Some(0), Some(0))>>}

Init ==
    /\ travel_purchase \in AuditPurchases
    /\ user_features \in AuditUsers
    /\ destination_location \in AuditDestinations
    /\ InitTables

Next ==
    \/ RunBronze
    \/ RunSilver
    \/ RunGold
    \/ AuditStep
    \/ Tick

Spec == Init /\ [][Next]_vars

-----------------------------------------------------------------------------
(* The stages alone, on richer inputs *)

MaxRows == 2           \* rows of a source relation whose values vary
MaxGoldRows == 3       \* purchases of a source relation that is aggregated

Deg(d) == Some(d * CoordUnit)
Usd(d) == Some(d * Milli)

BasePurchase ==
    Purchase(Some(1), Some(T1), Some(1), Some(1), Some(TRUE), Some(TRUE),
             Usd(150), Deg(45), Deg(-122))

\* Prices around the limits, and prices with a third decimal.
Prices ==
    {NULL, Some(-1), Usd(-50), Some(0), Some(12344), Some(12345), Some(150990),
     Some(MaxPrice * Milli - 4), Usd(MaxPrice), Some(MaxPrice * Milli + 1), Usd(100000)}

\* Coordinate pairs around the limits.
Coordinates ==
    {<<NULL, NULL>>, <<NULL, Deg(0)>>, <<Deg(0), NULL>>,
     <<Deg(90), Deg(180)>>, <<Deg(-90), Deg(-180)>>,
     <<Deg(91), Deg(0)>>, <<Deg(-91), Deg(0)>>, <<Deg(0), Deg(181)>>,
     <<Deg(0), Deg(-181)>>, <<Some(90 * CoordUnit + 1), Deg(0)>>,
     <<Deg(100), Deg(200)>>, <<Some(455000004), Some(-1224000005)>>}

Identifiers ==
    {<<i, u, d>> : i \in {NULL, Some(1)}, u \in {NULL, Some(1)}, d \in {NULL, Some(2)}}

CleaningPurchases ==
    {[BasePurchase EXCEPT !.price = p] : p \in Prices}
    \cup {[BasePurchase EXCEPT !.user_latitude = c[1], !.user_longitude = c[2]] :
            c \in Coordinates}
    \cup {[BasePurchase EXCEPT !.id = k[1], !.user_id = k[2], !.destination_id = k[3]] :
            k \in Identifiers}
    \cup {[BasePurchase EXCEPT !.id = NULL, !.price = Usd(-50)],
          [BasePurchase EXCEPT !.user_id = NULL, !.user_latitude = Deg(91)],
          [BasePurchase EXCEPT !.clicked = NULL, !.purchased = NULL],
          [BasePurchase EXCEPT !.clicked = Some(FALSE), !.purchased = Some(FALSE)],
          [BasePurchase EXCEPT !.ts = NULL],
          [BasePurchase EXCEPT !.ts = Some(T2)]}

BaseUser == UserFeature(Some(1), Usd(350), Some(5), Deg(45), Deg(-122))

CleaningUsers ==
    {[BaseUser EXCEPT !.mean_price_7d = m] :
        m \in {NULL, Usd(-5), Some(0), Usd(99), Some(199994), Some(199995), Usd(200),
               Some(499994), Some(499995), Usd(500), Usd(750)}}
    \cup {[BaseUser EXCEPT !.last_6m_purchases = n] :
        n \in {NULL, Some(0), Some(1), Some(2), Some(3), Some(9), Some(10), Some(15)}}
    \cup {[BaseUser EXCEPT !.user_latitude = c[1], !.user_longitude = c[2]] :
        c \in {<<NULL, Deg(0)>>, <<Deg(91), Deg(181)>>, <<Deg(0), Deg(-181)>>,
               <<Some(455000004), Some(-1224000005)>>}}
    \cup {[BaseUser EXCEPT !.user_id = NULL],
          [BaseUser EXCEPT !.user_id = Some(2), !.mean_price_7d = NULL,
                           !.last_6m_purchases = NULL]}

BaseDestination == Destination(Some(1), Some(<<"a", "B">>), Deg(48), Deg(2))

CleaningDestinations ==
    {[BaseDestination EXCEPT !.latitude = la] :
        la \in {NULL, Some(-1), Some(0), Deg(-90), Deg(90), Deg(91), Deg(-91),
                Some(-338000005)}}
    \cup {[BaseDestination EXCEPT !.longitude = lo] :
        lo \in {NULL, Deg(180), Deg(-180), Deg(181), Deg(-181)}}
    \cup {[BaseDestination EXCEPT !.name = n] :
        n \in {NULL, Some(<<>>), Some(<<" ", "a", "B", " ", "b", "A", " ">>)}}
    \cup {[BaseDestination EXCEPT !.destination_id = NULL],
          [BaseDestination EXCEPT !.destination_id = Some(2), !.latitude = Deg(91)]}

\* Purchases to aggregate: two users and a user without features, two
\* destinations and an unknown one, two months, valid and invalid prices.
AggregationPurchases ==
    {Purchase(Some(1), Some(T1), Some(1), Some(1), Some(TRUE), Some(TRUE),
              Usd(250), Deg(0), Deg(0)),
     Purchase(Some(2), Some(T1), Some(1), Some(1), Some(TRUE), Some(FALSE),
              Usd(250), Deg(0), Deg(0)),
     Purchase(Some(3), Some(T1), Some(1), Some(1), Some(FALSE), NULL,
              NULL, Deg(0), Deg(0)),
     Purchase(Some(4), Some(T2), Some(1), Some(2), Some(TRUE), Some(TRUE),
              Usd(2500), Deg(0), Deg(0)),
     Purchase(Some(5), Some(T1), Some(2), Some(1), Some(FALSE), Some(TRUE),
              Usd(-50), Deg(0), Deg(0)),
     Purchase(Some(6), Some(T2), Some(3), Some(3), NULL, Some(TRUE),
              Some(1999995), Deg(0), Deg(0)),
     Purchase(Some(7), NULL, Some(2), Some(2), Some(TRUE), Some(TRUE),
              Some(12344), Deg(0), Deg(0)),
     Purchase(NULL, Some(T1), Some(1), Some(1), Some(TRUE), Some(TRUE),
              Usd(250), Deg(0), Deg(0))}

AggregationUsers ==
    {<<>>,
     <<UserFeature(Some(1), Usd(350), Some(5), Deg(0), Deg(0))>>,
     <<UserFeature(Some(1), Usd(350), Some(5), Deg(0), Deg(0)),
       UserFeature(Some(2), NULL, NULL, NULL, NULL)>>,
     <<UserFeature(Some(1), Usd(350), Some(5), Deg(0), Deg(0)),
       UserFeature(Some(3), Usd(500), Some(10), Deg(0), Deg(0))>>,
     <<UserFeature(Some(2), Usd(200), Some(3), Deg(0), Deg(0)),
       UserFeature(Some(2), Usd(200), Some(3), Deg(0), Deg(0))>>}

AggregationDestinations ==
    {<<>>,
     <<Destination(Some(1), Some(<<"a">>), Deg(48), Deg(2))>>,
     <<Destination(Some(1), Some(<<"a">>), Deg(48), Deg(2)),
       Destination(Some(2), Some(<<"b">>), Deg(-33), Deg(151))>>}

InitStages ==
    /\ InitTables
    /\ \/ /\ travel_purchase \in RelationsUpTo(CleaningPurchases, MaxRows)
          /\ user_features = <<>>
          /\ destination_location = <<>>
       \/ /\ travel_purchase = <<>>
          /\ user_features \in RelationsUpTo(CleaningUsers, MaxRows)
          /\ destination_location = <<>>
       \/ /\ travel_purchase = <<>>
          /\ user_features = <<>>
          /\ destination_location \in RelationsUpTo(CleaningDestinations, MaxRows)
       \/ /\ travel_purchase \in RelationsUpTo(AggregationPurchases, MaxGoldRows)
          /\ user_features \in AggregationUsers
          /\ destination_location \in AggregationDestinations

NextStages ==
    \/ RunBronze
    \/ RunSilver
    \/ RunGold

SpecStages == InitStages /\ [][NextStages]_vars

-----------------------------------------------------------------------------
(* Properties of the audit *)

Aborted == pc \in {"failed", "crashed"}
HasStatus(results, status) == \E i \in DOMAIN results : results[i].status = status
ResultsOf(check, table) ==
    {i \in DOMAIN dq_results :
        dq_results[i].check = check /\ dq_results[i].table = table}

\* C1: a run of the audit that has ended in an error has replaced dq_audit_log
\* with the results of that run before the error was raised.
AuditLogWrittenBeforeAbort ==
    Aborted => (audit_written /\ dq_audit_log = Table(dq_results))

\* The positions of the audit after the freshness loop.
AfterFreshness == {"neg_prices", "invalid_conv", "summary", "verdict", "passed", "failed"}

\* C2: a check whose query raises leaves exactly one FAIL result for that
\* check and the run goes on: no check ends the run, and once the freshness
\* loop is over every freshness table that could not be read has its FAIL.
CheckErrorsBecomeFailResults ==
    /\ pc # "crashed"
    /\ pc \in AfterFreshness =>
         \A i \in DOMAIN freshness_tables :
            ~TableExists(freshness_tables[i][1]) =>
               /\ Cardinality(ResultsOf("data_freshness", freshness_tables[i][1])) = 1
               /\ \A j \in ResultsOf("data_freshness", freshness_tables[i][1]) :
                     dq_results[j].status = "FAIL"

\* C3: an ended run of the audit has ended in an error exactly when one of
\* its results is FAIL; a run with PASS and WARN results only has passed.
AbortIffFailRecorded ==
    /\ Aborted => HasStatus(dq_results, "FAIL")
    /\ pc = "passed" => ~HasStatus(dq_results, "FAIL")
    /\ pc = "verdict" => audit_written
    /\ (pc \in {"passed", "failed"} /\ ~HasStatus(dq_results, "FAIL")) => pc = "passed"

\* A run that went through the whole checklist, recorded a WARN (an orphaned
\* reference) and a FAIL (an empty table), and was ended by the final raise.
AbortIffFailRecordedWitness ==
    /\ pc = "failed"
    /\ audit_written
    /\ HasStatus(dq_results, "WARN")
    /\ HasStatus(dq_results, "FAIL")
    /\ Len(dq_results) = Len(tables) + 2 + Len(freshness_tables) + 2

-----------------------------------------------------------------------------
(* Properties of the cleaning stage *)

\* The ingested rows that carry every identifier, in table order.
IngestedPurchases ==
    SelectSeq(bronze_travel_purchases.rows,
              LAMBDA b : b.id # NULL /\ b.user_id # NULL /\ b.destination_id # NULL)
IngestedUsers == SelectSeq(bronze_user_features.rows, LAMBDA b : b.user_id # NULL)
IngestedDestinations ==
    SelectSeq(bronze_destinations.rows, LAMBDA b : b.destination_id # NULL)

\* r is p rounded half-up to a whole cent (p >= 0, thousandths of a dollar).
IsRoundedToCents(p, r) == r % 10 = 0 /\ r - p <= 5 /\ p - r < 5

\* C4: a cleaned purchase has _price_invalid and a NULL price exactly when the
\* ingested price is NULL, negative or above 50000; otherwise its price is the
\* ingested one rounded to 2 decimals and the flag is false.  So a cleaned
\* price is NULL or within [0, 50000], and NULL exactly when flagged.
PriceRule ==
    silver_travel_purchases.exists =>
      \A i \in DOMAIN silver_travel_purchases.rows :
        LET p == IngestedPurchases[i].price
            c == silver_travel_purchases.rows[i]
            bad == p = NULL \/ p[1] < 0 \/ p[1] > 50000 * 1000
        IN  /\ (c._price_invalid /\ c.price_usd = NULL) <=> bad
            /\ ~bad => /\ ~c._price_invalid
                       /\ c.price_usd # NULL
                       /\ IsRoundedToCents(p[1], c.price_usd[1])
            /\ c.price_usd # NULL => (0 <= c.price_usd[1] /\ c.price_usd[1] <= 50000 * 1000)
            /\ (c.price_usd = NULL) <=> c._price_invalid

\* A cleaned table with a flagged row, a row whose price was rounded up to
\* another value, and a row at the upper limit.
PriceRuleWitness ==
    /\ silver_travel_purchases.exists
    /\ \E i, j \in DOMAIN silver_travel_purchases.rows :
          /\ silver_travel_purchases.rows[i]._price_invalid
          /\ IngestedPurchases[i].price = <<50000 * 1000 + 1>>
          /\ silver_travel_purchases.rows[j].price_usd = <<12350>>
          /\ IngestedPurchases[j].price = <<12345>>

InLatitude(x) == -90 * CoordUnit <= x /\ x <= 90 * CoordUnit
InLongitude(x) == -180 * CoordUnit <= x /\ x <= 180 * CoordUnit

\* C5: a cleaned purchase whose ingested latitude or longitude is NULL or out
\* of range has both coordinates NULL and _location_invalid set; every
\* coordinate stored in a cleaned purchase is NULL or within its range.
InvalidCoordinatesNulled ==
    silver_travel_purchases.exists =>
      \A i \in DOMAIN silver_travel_purchases.rows :
        LET la == IngestedPurchases[i].user_latitude
            lo == IngestedPurchases[i].user_longitude
            c == silver_travel_purchases.rows[i]
            bad == \/ la = NULL \/ lo = NULL
                   \/ ~InLatitude(la[1]) \/ ~InLongitude(lo[1])
        IN  /\ bad => /\ c.user_latitude = NULL
                      /\ c.user_longitude = NULL
                      /\ c._location_invalid
            /\ c.user_latitude # NULL => InLatitude(c.user_latitude[1])
            /\ c.user_longitude # NULL => InLongitude(c.user_longitude[1])

\* The number of indexes of s that satisfy P.
CountOf(s, P(_)) == Cardinality({i \in DOMAIN s : P(s[i])})

PurchaseIds(r) == <<r.id, r.user_id, r.destination_id>>
CleanedIds(r) == <<r.transaction_id, r.user_id, r.destination_id>>
\* How often the identifiers k occur among the rows of s.
Occurrences(s, Ids(_), k) == Cardinality({i \in DOMAIN s : Ids(s[i]) = k})

\* C6: the cleaned tables hold one row for each ingested row whose required
\* identifiers are all non-NULL and none for the others; a NULL or out-of-range
\* price or coordinate does not remove a row, it is kept with its flag set.
HardFilter ==
    /\ silver_travel_purchases.exists =>
         LET b == bronze_travel_purchases.rows
             c == silver_travel_purchases.rows
         IN  /\ \A i \in DOMAIN c :
                   /\ c[i].transaction_id # NULL
                   /\ c[i].user_id # NULL
                   /\ c[i].destination_id # NULL
             /\ \A i \in DOMAIN b :
                   Occurrences(c, CleanedIds, PurchaseIds(b[i])) =
                     IF NULL \in Range(PurchaseIds(b[i])) THEN 0
                     ELSE Occurrences(b, PurchaseIds, PurchaseIds(b[i]))
             /\ Len(c) = CountOf(b, LAMBDA r : NULL \notin Range(PurchaseIds(r)))
             /\ CountOf(c, LAMBDA r : r._price_invalid) =
                  CountOf(b, LAMBDA r : /\ NULL \notin Range(PurchaseIds(r))
                                        /\ \/ r.price = NULL
                                           \/ r.price[1] < 0
                                           \/ r.price[1] > 50000 * 1000)
             /\ CountOf(c, LAMBDA r : r._location_invalid) =
                  CountOf(b, LAMBDA r : /\ NULL \notin Range(PurchaseIds(r))
                                        /\ \/ r.user_latitude = NULL
                                           \/ r.user_longitude = NULL
                                           \/ ~InLatitude(r.user_latitude[1])
                                           \/ ~InLongitude(r.user_longitude[1]))
    /\ silver_users.exists =>
         /\ \A i \in DOMAIN silver_users.rows : silver_users.rows[i].user_id # NULL
         /\ [i \in DOMAIN silver_users.rows |-> silver_users.rows[i].user_id]
              = [i \in DOMAIN IngestedUsers |-> IngestedUsers[i].user_id]
    /\ silver_destinations.exists =>
         /\ \A i \in DOMAIN silver_destinations.rows :
               silver_destinations.rows[i].destination_id # NULL
         /\ [i \in DOMAIN silver_destinations.rows |->
                silver_destinations.rows[i].destination_id]
              = [i \in DOMAIN IngestedDestinations |->
                    IngestedDestinations[i].destination_id]

\* An ingested table of two rows, one without an id and one with an invalid
\* price: the first is gone, the second is kept and flagged.
HardFilterWitness ==
    /\ silver_travel_purchases.exists
    /\ Len(bronze_travel_purchases.rows) = 2
    /\ \E i \in DOMAIN bronze_travel_purchases.rows :
          bronze_travel_purchases.rows[i].id = NULL
    /\ Len(silver_travel_purchases.rows) = 1
    /\ silver_travel_purchases.rows[1]._price_invalid
    /\ silver_travel_purchases.rows[1].price_usd = NULL

-----------------------------------------------------------------------------
(* Properties of the classifiers and of the aggregation stage *)

FrequencyRank(label) ==
    CASE label = "low_frequency" -> 0 [] label = "medium_frequency" -> 1
      [] label = "high_frequency" -> 2
PriceRank(label) ==
    CASE label = "budget" -> 0 [] label = "standard" -> 1 [] label = "premium" -> 2
TierRank(label) ==
    CASE label = "bronze" -> 0 [] label = "silver" -> 1 [] label = "gold" -> 2
      [] label = "platinum" -> 3

\* The cleaned users paired with the metrics they were classified on.
ClassifiedUsers ==
    {<<IngestedUsers[i], silver_users.rows[i]>> : i \in DOMAIN silver_users.rows}

\* C7: each classifier gives the label of the highest threshold its metric
\* reaches, inclusively, and the lowest label below every threshold: purchases
\* 10 / 3, average price 500 / 200, cumulative spend 5000 / 2000 / 500; the
\* label never decreases when the metric grows.
ThresholdLabels ==
    /\ silver_users.exists =>
         /\ \A x \in ClassifiedUsers :
              LET n == x[1].last_6m_purchases
                  m == x[1].mean_price_7d
              IN  /\ n # NULL =>
                        x[2].purchase_frequency_segment =
                          IF n[1] >= 10 THEN "high_frequency"
                          ELSE IF n[1] >= 3 THEN "medium_frequency"
                          ELSE "low_frequency"
                  /\ m # NULL =>
                        x[2].price_segment =
                          IF m[1] >= 500 * 1000 THEN "premium"
                          ELSE IF m[1] >= 200 * 1000 THEN "standard"
                          ELSE "budget"
         /\ \A x, y \in ClassifiedUsers :
              /\ (x[1].last_6m_purchases # NULL /\ y[1].last_6m_purchases # NULL
                  /\ x[1].last_6m_purchases[1] <= y[1].last_6m_purchases[1])
                 => FrequencyRank(x[2].purchase_frequency_segment)
                      <= FrequencyRank(y[2].purchase_frequency_segment)
              /\ (x[1].mean_price_7d # NULL /\ y[1].mean_price_7d # NULL
                  /\ x[1].mean_price_7d[1] <= y[1].mean_price_7d[1])
                 => PriceRank(x[2].price_segment) <= PriceRank(y[2].price_segment)
    /\ gold_user_engagement.exists =>
         /\ \A g \in gold_user_engagement.rows :
              g.total_spend_usd # NULL =>
                 g.customer_tier =
                   IF g.total_spend_usd[1] >= 5000 * 1000 THEN "platinum"
                   ELSE IF g.total_spend_usd[1] >= 2000 * 1000 THEN "gold"
                   ELSE IF g.total_spend_usd[1] >= 500 * 1000 THEN "silver"
                   ELSE "bronze"
         /\ \A g, h \in gold_user_engagement.rows :
              (g.total_spend_usd # NULL /\ h.total_spend_usd # NULL
               /\ g.total_spend_usd[1] <= h.total_spend_usd[1])
              => TierRank(g.customer_tier) <= TierRank(h.customer_tier)

\* A user with exactly 10 purchases and an average price of exactly 500, whose
\* cumulative spend is exactly 2000, beside a user in lower classes.
ThresholdLabelsWitness ==
    /\ gold_user_engagement.exists
    /\ \E x, y \in ClassifiedUsers :
          /\ x[1].last_6m_purchases = <<10>>
          /\ x[2].purchase_frequency_segment = "high_frequency"
          /\ x[1].mean_price_7d = <<500 * 1000>>
          /\ x[2].price_segment = "premium"
          /\ y[2].purchase_frequency_segment = "medium_frequency"
          /\ y[2].price_segment = "standard"
    /\ \E g, h \in gold_user_engagement.rows :
          /\ g.total_spend_usd = <<2000 * 1000>>
          /\ g.customer_tier = "gold"
          /\ h.total_spend_usd = <<0>>
          /\ h.customer_tier = "bronze"

\* C8: in every aggregate row a ratio is NULL when its denominator is zero:
\* the conversion and click rates when the row's transaction, interaction or
\* view count is 0, the click-to-purchase and booking rates when its click
\* count is 0.
RatiosNullOnZeroDenominator ==
    /\ gold_daily_revenue_metrics.exists =>
         \A g \in gold_daily_revenue_metrics.rows :
            /\ g.total_transactions = 0 => g.conversion_rate_pct = NULL
            /\ g.total_clicks = 0 => g.click_to_purchase_rate_pct = NULL
    /\ gold_destination_performance.exists =>
         \A g \in gold_destination_performance.rows :
            /\ g.total_views = 0 => g.click_rate_pct = NULL
            /\ g.total_clicks = 0 => g.booking_rate_pct = NULL
    /\ gold_user_engagement.exists =>
         \A g \in gold_user_engagement.rows :
            g.total_interactions = 0 => g.conversion_rate_pct = NULL
    /\ gold_monthly_summary.exists =>
         \A g \in gold_monthly_summary.rows :
            g.total_transactions = 0 => g.monthly_conversion_pct = NULL

\* The conversion rates of the aggregate tables: <<purchases, total, rate>>,
\* the rate in hundredths of a percent.
ConversionRates ==
    {<<g.total_purchases, g.total_transactions, g.conversion_rate_pct>> :
        g \in gold_daily_revenue_metrics.rows}
    \cup {<<g.total_bookings, g.total_transactions, g.monthly_conversion_pct>> :
        g \in gold_monthly_summary.rows}
    \cup {<<g.total_purchases, g.total_interactions, g.conversion_rate_pct>> :
        g \in gold_user_engagement.rows}

\* C9 as stated: the conversion rate is purchases * 100 / total when
\* total > 0, and 0 when total is 0.
ExactConversionRate ==
    \A c \in ConversionRates :
       /\ c[3] # NULL
       /\ c[2] > 0 => c[3][1] * c[2] = c[1] * 100 * 100
       /\ c[2] = 0 => c[3][1] = 0

\* C9 as amended: the conversion rate is purchases * 100 / total rounded
\* half-up to 2 decimals when total > 0, and 0 when total is 0.
RoundedConversionRate ==
    \A c \in ConversionRates :
       /\ c[3] # NULL
       /\ c[2] > 0 => /\ 2 * c[3][1] * c[2] - c[2] <= 2 * c[1] * 100 * 100
                      /\ 2 * c[1] * 100 * 100 < 2 * c[3][1] * c[2] + c[2]
       /\ c[2] = 0 => c[3][1] = 0

\* A day with 2 purchases in 3 transactions (66.67), a month with 1 in 1
\* (100.00) and a user without interactions (0).
RoundedConversionRateWitness ==
    /\ gold_daily_revenue_metrics.exists
    /\ \E g \in gold_daily_revenue_metrics.rows :
          /\ g.total_transactions = 3 /\ g.total_purchases = 2
          /\ g.conversion_rate_pct = <<6667>>
    /\ \E g \in gold_user_engagement.rows :
          g.total_interactions = 0 /\ g.conversion_rate_pct = <<0>>

\* The cleaned purchases of a destination, of a user.
PurchasesOfDestination(id) ==
    SelectSeq(silver_travel_purchases.rows, LAMBDA t : t.destination_id = id)
PurchasesOfUser(id) ==
    SelectSeq(silver_travel_purchases.rows, LAMBDA t : t.user_id = id)

NullOrZero(x) == x = NULL \/ x = <<0>>

\* The entity is one row of its cleaned table.
ListedOnce(rows, Same(_)) == Cardinality({i \in DOMAIN rows : Same(rows[i])}) = 1

\* C10: a cleaned destination or user without a cleaned purchase has exactly
\* one row in its aggregate table, with every count 0 and every ratio or
\* average NULL or 0 (stated for the entities that are one row of their
\* cleaned table).
ZeroHistoryEntitiesHaveZeroMetrics ==
    /\ gold_destination_performance.exists =>
         \A d \in Range(silver_destinations.rows) :
            (/\ PurchasesOfDestination(d.destination_id) = <<>>
             /\ ListedOnce(silver_destinations.rows,
                           LAMBDA x : x.destination_id = d.destination_id)) =>
               /\ Cardinality({g \in gold_destination_performance.rows :
                                 g.destination_id = d.destination_id}) = 1
               /\ \A g \in gold_destination_performance.rows :
                     g.destination_id = d.destination_id =>
                        /\ g.total_views = 0
                        /\ g.total_clicks = 0
                        /\ g.total_bookings = 0
                        /\ g.unique_visitors = 0
                        /\ NullOrZero(g.click_rate_pct)
                        /\ NullOrZero(g.booking_rate_pct)
                        /\ NullOrZero(g.avg_booking_value_usd)
    /\ gold_user_engagement.exists =>
         \A u \in Range(silver_users.rows) :
            (/\ PurchasesOfUser(u.user_id) = <<>>
             /\ ListedOnce(silver_users.rows, LAMBDA x : x.user_id = u.user_id)) =>
               /\ Cardinality({g \in gold_user_engagement.rows :
                                 g.user_id = u.user_id}) = 1
               /\ \A g \in gold_user_engagement.rows :
                     g.user_id = u.user_id =>
                        /\ g.total_interactions = 0
                        /\ g.total_clicks = 0
                        /\ g.total_purchases = 0
                        /\ NullOrZero(g.conversion_rate_pct)
                        /\ NullOrZero(g.avg_purchase_usd)

\* One value is strictly more than another: both are known and the first is
\* greater.
StrictlyMore(a, b) == NotNull(a) /\ NotNull(b) /\ Val(a) > Val(b)

\* C11: in the destination-performance table booking_rank is 1 + the number
\* of destinations with strictly more total bookings and revenue_rank is 1 +
\* the number of destinations with strictly more total revenue (equal values
\* share a rank, the next rank skips), each computed on its own metric.
CompetitionRanks ==
    gold_destination_performance.exists =>
       \A d \in gold_destination_performance.rows :
          /\ d.booking_rank =
                1 + Cardinality({e \in gold_destination_performance.rows :
                                   e.total_bookings > d.total_bookings})
          /\ d.revenue_rank =
                1 + Cardinality({e \in gold_destination_performance.rows :
                                   StrictlyMore(e.total_revenue_usd,
                                                d.total_revenue_usd)})

\* The place of a monthly row in the (year, month) order; the period of the
\* purchases without a timestamp comes first.
PeriodOf(r) ==
    IF r.transaction_year = NULL THEN 0
    ELSE r.transaction_year[1] * 12 + r.transaction_month[1]

\* C12: in the monthly summary ordered by (year, month) the earliest period
\* has a NULL prev_month_revenue and every other period's prev_month_revenue
\* is the monthly_revenue_usd of the period just before it.
PrevMonthRevenue ==
    gold_monthly_summary.exists =>
       \A r \in gold_monthly_summary.rows :
          LET before == {q \in gold_monthly_summary.rows : PeriodOf(q) < PeriodOf(r)}
          IN  IF before = {} THEN r.prev_month_revenue = NULL
              ELSE \E q \in before :
                      /\ \A p \in before : PeriodOf(p) <= PeriodOf(q)
                      /\ r.prev_month_revenue = q.monthly_revenue_usd

\* Three periods with three different revenues: the undated purchases
\* (12.34), January (250.00) and February, which carries January's revenue.
PrevMonthRevenueWitness ==
    /\ gold_monthly_summary.exists
    /\ Cardinality(gold_monthly_summary.rows) = 3
    /\ \E r \in gold_monthly_summary.rows :
          /\ r.transaction_year = NULL
          /\ r.monthly_revenue_usd = <<12340>>
          /\ r.prev_month_revenue = NULL
    /\ \E r \in gold_monthly_summary.rows :
          /\ r.transaction_month = <<1>>
          /\ r.monthly_revenue_usd = <<250000>>
          /\ r.prev_month_revenue = <<12340>>
    /\ \E r \in gold_monthly_summary.rows :
          /\ r.transaction_month = <<2>>
          /\ r.prev_month_revenue = <<250000>>

\* The sum of the cleaned prices of the rows with purchased = true and a valid
\* (non-NULL) price.
ValidRevenue(rs) ==
    LET sold == SelectSeq(rs, LAMBDA t : t.purchased = <<TRUE>> /\ t.price_usd # NULL)
    IN  SeqSum([i \in DOMAIN sold |-> sold[i].price_usd[1]])

\* The cleaned purchases of a day, of a month.
PurchasesOfDay(g) ==
    SelectSeq(silver_travel_purchases.rows,
              LAMBDA t : DateOf(t.transaction_timestamp) = g.report_date)
PurchasesOfMonth(g) ==
    SelectSeq(silver_travel_purchases.rows,
              LAMBDA t : /\ t.transaction_year = g.transaction_year
                         /\ t.transaction_month = g.transaction_month)

\* C13: a purchase with an invalid price and non-null identifiers is counted
\* in its group's total_transactions and adds nothing to the revenue: the
\* revenue of a day or a month is the sum of the cleaned prices of its rows
\* with purchased = true and a valid price.
RevenueOfValidPurchases ==
    /\ gold_daily_revenue_metrics.exists =>
         \A g \in gold_daily_revenue_metrics.rows :
            /\ g.total_transactions = Len(PurchasesOfDay(g))
            /\ g.total_revenue_usd = <<ValidRevenue(PurchasesOfDay(g))>>
    /\ gold_monthly_summary.exists =>
         \A g \in gold_monthly_summary.rows :
            /\ g.total_transactions = Len(PurchasesOfMonth(g))
            /\ g.monthly_revenue_usd = <<ValidRevenue(PurchasesOfMonth(g))>>

-----------------------------------------------------------------------------
(* Properties of the audit's checks *)

UsersDirection == "silver_travel_purchases -> silver_users"
DestinationsDirection == "silver_travel_purchases -> silver_destinations"

\* Some cleaned purchase references a user, a destination, that its cleaned
\* dimension table does not have.
HasOrphanUser ==
    \E t \in Range(silver_travel_purchases.rows) :
       \A u \in Range(silver_users.rows) : u.user_id # t.user_id
HasOrphanDestination ==
    \E t \in Range(silver_travel_purchases.rows) :
       \A d \in Range(silver_destinations.rows) : d.destination_id # t.destination_id

\* C14: in each direction of the referential-integrity check the recorded
\* orphan count is non-zero exactly when some cleaned purchase references an
\* id absent from the cleaned dimension table, the severity is WARN for a
\* non-zero count and PASS for zero, and it is never FAIL.
OrphansWarnOnly ==
    \A i \in DOMAIN dq_results :
       LET r == dq_results[i]
       IN  r.check = "referential_integrity" =>
              /\ r.actual # NULL
              /\ r.table = UsersDirection => (r.actual[1] # 0 <=> HasOrphanUser)
              /\ r.table = DestinationsDirection =>
                    (r.actual[1] # 0 <=> HasOrphanDestination)
              /\ r.status = IF r.actual[1] # 0 THEN "WARN" ELSE "PASS"
              /\ r.status # "FAIL"

\* A run that recorded an orphan in both directions as WARN, and passed.
OrphansWarnOnlyWitness ==
    /\ pc = "passed"
    /\ HasOrphanUser /\ HasOrphanDestination
    /\ \E i \in ResultsOf("referential_integrity", UsersDirection) :
          dq_results[i].actual = <<1>> /\ dq_results[i].status = "WARN"
    /\ \E i \in ResultsOf("referential_integrity", DestinationsDirection) :
          dq_results[i].actual = <<1>> /\ dq_results[i].status = "WARN"

-----------------------------------------------------------------------------
(* Cleaning and aggregation run again and again on one ingested snapshot *)

\* The snapshot has been ingested once, at hour 0; nothing else has run.
InitRerun ==
    /\ now = 0
    /\ travel_purchase \in RelationsUpTo(AggregationPurchases, MaxRows)
    /\ user_features \in AggregationUsers
    /\ destination_location \in AggregationDestinations
    /\ bronze_travel_purchases =
         Table([i \in DOMAIN travel_purchase |-> BronzePurchaseRow(travel_purchase[i])])
    /\ bronze_user_features =
         Table([i \in DOMAIN user_features |-> BronzeUserRow(user_features[i])])
    /\ bronze_destinations =
         Table([i \in DOMAIN destination_location |->
                    BronzeDestinationRow(destination_location[i])])
    /\ silver_travel_purchases = Missing
    /\ silver_users = Missing
    /\ silver_destinations = Missing
    /\ gold_daily_revenue_metrics = MissingGold
    /\ gold_destination_performance = MissingGold
    /\ gold_user_engagement = MissingGold
    /\ gold_monthly_summary = MissingGold
    /\ dq_audit_log = Missing
    /\ dq_results = <<>>
    /\ pc = "idle"
    /\ loop_i = 1
    /\ audit_written = FALSE

NextRerun ==
    \/ RunSilver
    \/ RunGold
    \/ Tick

SpecRerun == InitRerun /\ [][NextRerun]_vars

\* The rows of a cleaned table, of an aggregate table, without the stage's own
\* generation timestamp.
WithoutProcessedAt(rows) == {[r EXCEPT !._processed_at = NULL] : r \in Range(rows)}
WithoutGeneratedAt(rows) == {[r EXCEPT !._generated_at = NULL] : r \in rows}

\* C15: on an unchanged ingested snapshot every later run of the cleaning
\* stage and of the aggregation stage leaves in each cleaned and aggregate
\* table the rows of the run before, _processed_at and _generated_at aside.
RerunsReproduceRows ==
    [][/\ silver_travel_purchases.exists =>
            WithoutProcessedAt(silver_travel_purchases'.rows)
              = WithoutProcessedAt(silver_travel_purchases.rows)
       /\ silver_users.exists =>
            WithoutProcessedAt(silver_users'.rows) = WithoutProcessedAt(silver_users.rows)
       /\ silver_destinations.exists =>
            WithoutProcessedAt(silver_destinations'.rows)
              = WithoutProcessedAt(silver_destinations.rows)
       /\ gold_daily_revenue_metrics.exists =>
            WithoutGeneratedAt(gold_daily_revenue_metrics'.rows)
              = WithoutGeneratedAt(gold_daily_revenue_metrics.rows)
       /\ gold_destination_performance.exists =>
            WithoutGeneratedAt(gold_destination_performance'.rows)
              = WithoutGeneratedAt(gold_destination_performance.rows)
       /\ gold_user_engagement.exists =>
            WithoutGeneratedAt(gold_user_engagement'.rows)
              = WithoutGeneratedAt(gold_user_engagement.rows)
       /\ gold_monthly_summary.exists =>
            WithoutGeneratedAt(gold_monthly_summary'.rows)
              = WithoutGeneratedAt(gold_monthly_summary.rows)]_vars

\* The cleaning stage has run again, hours after the aggregation stage had
\* already used its first output, and the aggregation stage has run after
\* the snapshot was ingested: the tables carry three different hours.
RerunsReproduceRowsWitness ==
    /\ silver_travel_purchases.exists /\ gold_daily_revenue_metrics.exists
    /\ Len(silver_travel_purchases.rows) = 2
    /\ \A i \in DOMAIN bronze_travel_purchases.rows :
          bronze_travel_purchases.rows[i]._ingested_at = <<0>>
    /\ \A i \in DOMAIN silver_travel_purchases.rows :
          silver_travel_purchases.rows[i]._processed_at = <<24>>
    /\ \A g \in gold_daily_revenue_metrics.rows : g._generated_at = <<12>>
    /\ gold_daily_revenue_metrics.rows # {}

-----------------------------------------------------------------------------
(* Properties of the cleaned dimension tables *)

\* C16: in every cleaned user row price_segment is the classification of the
\* row's own avg_price_7day (>= 500 premium, >= 200 standard, else budget) and
\* purchase_frequency_segment is the classification of its own
\* purchases_6month (>= 10 high, >= 3 medium, else low).
SegmentsOfOwnMetrics ==
    silver_users.exists =>
       \A r \in Range(silver_users.rows) :
          /\ r.price_segment =
                IF r.avg_price_7day[1] >= 500 * 1000 THEN "premium"
                ELSE IF r.avg_price_7day[1] >= 200 * 1000 THEN "standard"
                ELSE "budget"
          /\ r.purchase_frequency_segment =
                IF r.purchases_6month[1] >= 10 THEN "high_frequency"
                ELSE IF r.purchases_6month[1] >= 3 THEN "medium_frequency"
                ELSE "low_frequency"

-----------------------------------------------------------------------------
(* Properties of the freshness check *)

\* The generation timestamps of a freshness-checked table.
StampsOf(name) ==
    CASE name = "bronze_travel_purchases" ->
           {r._ingested_at[1] : r \in Range(bronze_travel_purchases.rows)}
      [] name = "silver_travel_purchases" ->
           {r._processed_at[1] : r \in Range(silver_travel_purchases.rows)}
      [] name = "gold_daily_revenue_metrics" ->
           {r._generated_at[1] : r \in gold_daily_revenue_metrics.rows}

\* The freshness results of the run in progress (the clock and the tables
\* stand still while the checklist runs).
FreshnessOfRun ==
    IF pc \in NotRunning THEN {}
    ELSE {dq_results[i] : i \in {j \in DOMAIN dq_results :
                                     dq_results[j].check = "data_freshness"}}

-----------------------------------------------------------------------------
(* Properties of the cleaned destinations *)

\* The cleaned destinations paired with the ingested rows they came from.
LabelledDestinations ==
    {<<IngestedDestinations[i], silver_destinations.rows[i]>> :
        i \in DOMAIN silver_destinations.rows}

\* C18: every cleaned destination has a hemisphere label, 'Northern' exactly
\* when the ingested latitude is non-null and >= 0 and 'Southern' in every
\* other case, a NULL ingested latitude included; the label follows the
\* ingested latitude even where the cleaned latitude was nulled.
HemisphereOfIngestedLatitude ==
    silver_destinations.exists =>
       /\ Len(silver_destinations.rows) = Len(IngestedDestinations)
       /\ \A x \in LabelledDestinations :
             /\ x[2].hemisphere \in {"Northern", "Southern"}
             /\ x[2].hemisphere = "Northern"
                  <=> (x[1].dest_latitude # NULL /\ x[1].dest_latitude[1] >= 0)

\* A destination at latitude 91, cleaned to a NULL latitude and labelled
\* Northern, beside a destination without latitude, labelled Southern.
HemisphereOfIngestedLatitudeWitness ==
    /\ silver_destinations.exists
    /\ \E x \in LabelledDestinations :
          /\ x[1].dest_latitude = <<91 * 10000000>>
          /\ x[2].latitude = NULL
          /\ x[2].hemisphere = "Northern"
    /\ \E x \in LabelledDestinations :
          /\ x[1].dest_latitude = NULL
          /\ x[2].hemisphere = "Southern"

-----------------------------------------------------------------------------
(* Properties of the business-rule checks *)

BusinessRuleResults ==
    {dq_results[i] : i \in {j \in DOMAIN dq_results :
                              dq_results[j].check = "business_rule"}}

\* C19: the tables that the cleaning and aggregation stages produce pass both
\* business-rule checks: no cleaned purchase has a negative price, every daily
\* conversion_rate_pct is within [0, 100] because the purchases of a group
\* never outnumber its transactions; so a FAIL result is always a
\* record-count result.
BusinessRulesPass ==
    /\ \A r \in BusinessRuleResults : r.status = "PASS" /\ r.actual = <<0>>
    /\ \A i \in DOMAIN dq_results :
          dq_results[i].status = "FAIL" => dq_results[i].check = "record_count"
    /\ \A t \in Range(silver_travel_purchases.rows) :
          t.price_usd = NULL \/ t.price_usd[1] >= 0
    /\ \A g \in gold_daily_revenue_metrics.rows :
          /\ g.total_purchases <= g.total_transactions
          /\ g.conversion_rate_pct # NULL
          /\ g.conversion_rate_pct[1] >= 0
          /\ g.conversion_rate_pct[1] <= 100 * 100

\* A finished run over a purchase that was ingested with a negative price:
\* both business rules are recorded as PASS.
BusinessRulesPassWitness ==
    /\ pc \in {"passed", "failed"}
    /\ Cardinality(BusinessRuleResults) = 2
    /\ \E b \in Range(bronze_travel_purchases.rows) :
          b.price # NULL /\ b.price[1] < 0
    /\ \E t \in Range(silver_travel_purchases.rows) :
          t._price_invalid /\ t.price_usd = NULL
    /\ gold_daily_revenue_metrics.rows # {}


=============================================================================
